---- MODULE Spec2Model ----
(***************************************************************************)
(* Model of firmware-esp32/src/main.cpp: an ESP32 reads a load cell        *)
(* (HX711), filters the raw samples (median ring buffer + IIR), detects    *)
(* stability, reports one line per control cycle on Serial1 and executes   *)
(* the line commands "T" (tare) and "C:<weight>" (calibrate).              *)
(*                                                                         *)
(* Numbers.  long / int32_t values are integers.  A float is represented   *)
(* in fixed point: the integer f stands for the real f / Q, and products   *)
(* and quotients are rounded toward zero to a multiple of 1/Q, as IEEE     *)
(* single precision rounds them to a representable value.                  *)
(* Characters are one-character strings; a String is a sequence of them.   *)
(***************************************************************************)
EXTENDS Integers, Sequences, FiniteSets, TLC

VARIABLES
    g_calFactor,      \* volatile float g_calFactor   (fixed point)
    g_tareOffset,     \* volatile int32_t g_tareOffset
    prefs,            \* the NVS namespace "bascula": key -> whether it is set, and its value
    rb,               \* loop(): static RingBuffer rb(MEDIAN_WINDOW)
    first,            \* loop(): static bool first
    iir_value,        \* loop(): static float iir_value
    lastStableRefMs,  \* loop(): static uint32_t lastStableRefMs
    stable,           \* loop(): static bool stable
    last_grams,       \* loop(): static float last_grams
    cmdLine,          \* String cmdLine
    cmdOverflow,      \* bool cmdOverflow
    rx,               \* Serial1 receive buffer: bytes sent by the host, not yet read
    tx,               \* the lines the latest step printed on Serial1
    clock,            \* millis()
    pc,               \* where the program is: "setup", "cycle" (loop steps 1-4), "drain" (step 5)
    hist,             \* history: every sample passed to RingBuffer::add, oldest first
    refPoint,         \* history: the weight of the latest cycle that recorded an excursion (0 before any)
    inBand,           \* history: every cycle since refPoint was set reported a weight within delta of it
    timerStart,       \* history: clock value when the stability timer was last restarted
    last,             \* history: what the latest step did (a record whose op names the step)
    lineLen,          \* history: number of non-terminator bytes read since the last terminator
    log,              \* history: rec, whether the clock and the histories advance; fed, the bytes
                      \* read from Serial1 since power-on; lines, the lines completed since
                      \* power-on (text, ovf); boots, the number of restarts; cal and tare,
                      \* CalibrationFactor and TareOffset when the power was last cut
    host,             \* the bytes the host has still to send
    nCycles           \* number of control cycles run

vars == << g_calFactor, g_tareOffset, prefs, rb, first, iir_value, lastStableRefMs,
           stable, last_grams, cmdLine, cmdOverflow, rx, tx, clock, pc,
           hist, refPoint, inBand, timerStart, last, lineLen, log, host, nCycles >>

----------------------------------------------------------------------------
(* Program constants *)

MEDIAN_WINDOW == 15
STABLE_MS == 700
LOOP_HZ == 50
CMD_MAX_LEN == 80
CAL_N == 20
CAL_DELAY_MS == 5
TwoPow16 == 65536
SETUP_DELAY_MS == 300

(* Bounds of the model *)

\* resolution of the fixed-point representation of float: 1.0 is Q
Q == 1000
\* number of RingBuffer::add calls explored by SpecRing
MaxAdds == 16
\* capacity of the Serial1 receive buffer
RxCap == 2
\* control cycles explored by Spec and by SpecSig
MaxCyclesCmd == 2
MaxCycles == 4
\* longest time readRaw() waits for the HX711 in a control cycle, in ms
MaxLatency == 680

----------------------------------------------------------------------------
(* Integer and float arithmetic *)

Abs(x) == IF x < 0 THEN -x ELSE x

Min(a, b) == IF a <= b THEN a ELSE b

\* C integer division: the quotient is rounded toward zero
TruncDiv(a, b) ==
    IF (a >= 0) = (b > 0) THEN Abs(a) \div Abs(b) ELSE -(Abs(a) \div Abs(b))

\* (float)n for an integer n
ToFloat(n) == n * Q

\* a * b and a / b on floats
FMul(a, b) == TruncDiv(a * b, Q)

FDiv(a, b) == TruncDiv(a * Q, b)

\* a - b on uint32_t, for a and b in 0 .. 2^32 - 1 (millis() wraps after 49.7 days:
\* the clock of the model stays far below, and only the first branch is ever taken)
U32Sub(a, b) == IF a >= b THEN a - b ELSE (a - b) + TwoPow16 * TwoPow16

IIR_ALPHA == Q \div 5

STABLE_DELTA_G == ToFloat(1)

----------------------------------------------------------------------------
(* RingBuffer *)

\* RingBuffer(n): buf is buf[0..N-1] kept as a sequence (buf[i] is buf[i+1] here)
RbNew == [buf |-> [i \in 1..MEDIAN_WINDOW |-> 0], idx |-> 0, count |-> 0]

RbAdd(r, v) ==
    [buf   |-> [r.buf EXCEPT ![r.idx + 1] = v],
     idx   |-> (r.idx + 1) % MEDIAN_WINDOW,
     count |-> IF r.count < MEDIAN_WINDOW THEN r.count + 1 ELSE r.count]

RbSize(r) == r.count

\* std::sort, ascending
RECURSIVE SortInsert(_, _)
SortInsert(s, x) ==
    IF s = << >> THEN << x >>
    ELSE IF x <= Head(s) THEN << x >> \o s
    ELSE << Head(s) >> \o SortInsert(Tail(s), x)

RECURSIVE StdSort(_)
StdSort(s) == IF s = << >> THEN << >> ELSE SortInsert(StdSort(Tail(s)), Head(s))

\* RbMedian with a seeded fault: the element below the middle for an even count
RbMedianLower(r) ==
    IF r.count = 0 THEN 0
    ELSE StdSort(SubSeq(r.buf, 1, r.count))[((r.count - 1) \div 2) + 1]

\* tmp = buf[0..count-1]; sort; tmp[count / 2]
RbMedian(r) ==
    IF r.count = 0 THEN 0
    ELSE StdSort(SubSeq(r.buf, 1, r.count))[(r.count \div 2) + 1]

----------------------------------------------------------------------------
(* String: the operations of the Arduino String class the program uses *)

CR == "\r"
LF == "\n"

IsSpace(c) == c \in {" ", "\t", "\n", "\r", "\f"}

Digits == {"0", "1", "2", "3", "4", "5", "6", "7", "8", "9"}

DigitVal(c) ==
    CASE c = "0" -> 0 [] c = "1" -> 1 [] c = "2" -> 2 [] c = "3" -> 3 [] c = "4" -> 4
      [] c = "5" -> 5 [] c = "6" -> 6 [] c = "7" -> 7 [] c = "8" -> 8 [] c = "9" -> 9

RECURSIVE TrimLeft(_)
TrimLeft(s) == IF s # << >> /\ IsSpace(Head(s)) THEN TrimLeft(Tail(s)) ELSE s

RECURSIVE TrimRight(_)
TrimRight(s) ==
    IF s # << >> /\ IsSpace(s[Len(s)]) THEN TrimRight(SubSeq(s, 1, Len(s) - 1)) ELSE s

\* a trim() that removes nothing
TrimNone(s) == s

\* String::trim()
Trim(s) == TrimRight(TrimLeft(s))

\* String::startsWith(p)
StartsWith(s, p) == Len(s) >= Len(p) /\ SubSeq(s, 1, Len(p)) = p

\* String::substring(from), from counted from 0
Substring(s, from) == SubSeq(s, from + 1, Len(s))

\* the longest prefix of s made of decimal digits
RECURSIVE DigitsPrefix(_)
DigitsPrefix(s) ==
    IF s # << >> /\ Head(s) \in Digits THEN << Head(s) >> \o DigitsPrefix(Tail(s)) ELSE << >>

\* the number a sequence of decimal digits writes (0 for none)
RECURSIVE DecValue(_)
DecValue(ds) ==
    IF ds = << >> THEN 0 ELSE 10 * DecValue(SubSeq(ds, 1, Len(ds) - 1)) + DigitVal(ds[Len(ds)])

RECURSIVE Pow10(_)
Pow10(n) == IF n = 0 THEN 1 ELSE 10 * Pow10(n - 1)

\* String::toFloat(), i.e. atof: leading white space, an optional sign, digits, an
\* optional point and digits; it stops at the first other character and gives 0
\* when no number starts the text.  (Exponents, "inf" and "nan" are not modelled:
\* the host of the model sends no letter of them.)
StrToFloat(s) ==
    LET t    == TrimLeft(s)
        neg  == t # << >> /\ Head(t) = "-"
        u    == IF t # << >> /\ Head(t) \in {"-", "+"} THEN Tail(t) ELSE t
        ip   == DigitsPrefix(u)
        rest == SubSeq(u, Len(ip) + 1, Len(u))
        fp   == IF rest # << >> /\ Head(rest) = "." THEN DigitsPrefix(Tail(rest)) ELSE << >>
        mag  == DecValue(ip) * Q + TruncDiv(DecValue(fp) * Q, Pow10(Len(fp)))
    IN  IF neg THEN -mag ELSE mag

----------------------------------------------------------------------------
(* The signal path of loop() *)

\* the NVS namespace with no key written
NvsEmpty == [cal_f |-> [set |-> FALSE, val |-> 0], tare |-> [set |-> FALSE, val |-> 0]]

\* Preferences::getFloat / getInt (key, default)
PrefsGet(store, key, default) == IF store[key].set THEN store[key].val ELSE default

\* PrefsPut with a seeded fault: the write is lost
PrefsPutLost(store, key, value) == store

\* Preferences::putFloat / putInt (key, value)
PrefsPut(store, key, value) == [store EXCEPT ![key] = [set |-> TRUE, val |-> value]]

\* rawToGrams: (float)(raw - g_tareOffset) * g_calFactor
RawToGrams(raw) == FMul(ToFloat(raw - g_tareOffset), g_calFactor)

\* iir_value = (1.0f - IIR_ALPHA) * iir_value + IIR_ALPHA * g
IirBlend(iir, g) == FMul(ToFloat(1) - IIR_ALPHA, iir) + FMul(IIR_ALPHA, g)

\* IirNext with a seeded fault: the first median sample is blended too
IirAlwaysBlend(isFirst, iir, g) == IirBlend(iir, g)

\* the smoother after a median sample g: seeded on the first one, blended afterwards
IirNext(isFirst, iir, g) == IF isFirst THEN g ELSE IirBlend(iir, g)

\* delta <= STABLE_DELTA_G, delta = fabsf(grams - last_grams)
WithinDelta(grams, lastg) == Abs(grams - lastg) <= STABLE_DELTA_G

\* StableNext with a seeded fault: the timer is not consulted
StableNoTimer(st, within, now, lastRef) == within

\* the stable flag after a cycle
StableNext(st, within, now, lastRef) ==
    IF within
    THEN (IF U32Sub(now, lastRef) >= STABLE_MS THEN TRUE ELSE st)
    ELSE FALSE

\* "%.2f": the weight in hundredths of a gram, rounded to the nearest
Fmt2(g) == TruncDiv(2 * 100 * g + (IF g < 0 THEN -Q ELSE Q), 2 * Q)

\* the report line "G:<grams>,S:<0|1>"
Report(grams, st) == [msg |-> "G", val |-> Fmt2(grams), s |-> IF st THEN 1 ELSE 0]

\* a reply line without a value
Reply(m) == [msg |-> m, val |-> 0, s |-> 0]

\* "ACK:C:" followed by the factor
AckCal(f) == [msg |-> "ACK:C", val |-> f, s |-> 0]

----------------------------------------------------------------------------
(* Initial state: the globals and the statics of loop() as constructed.  An       *)
(* environment e gives the raw values the HX711 can return (raws), the times    *)
(* readRaw can wait (lats), the bursts a calibration can read (mixes), the byte  *)
(* streams the host can send (streams), the contents the NVS can have at        *)
(* power-up (stores), the number of cycles run (maxCycles) and whether the      *)
(* clock and the histories are kept (timed).                                    *)

Init(e) ==
    /\ g_calFactor = ToFloat(1)
    /\ g_tareOffset = 0
    /\ prefs \in e.stores
    /\ rb = RbNew
    /\ first = TRUE
    /\ iir_value = 0
    /\ lastStableRefMs = 0
    /\ stable = FALSE
    /\ last_grams = 0
    /\ cmdLine = << >>
    /\ cmdOverflow = FALSE
    /\ rx = << >>
    /\ tx = << >>
    /\ clock = 0
    /\ pc = "setup"
    /\ hist = << >>
    /\ refPoint = 0
    /\ inBand = TRUE
    /\ timerStart = 0
    /\ last = [op |-> "init"]
    /\ lineLen = 0
    /\ log = [rec |-> e.timed, fed |-> << >>, lines |-> << >>, boots |-> 0,
              cal |-> ToFloat(1), tare |-> 0]
    /\ host \in e.streams
    /\ nCycles = 0

\* millis() after d more milliseconds.  (Where the histories are not kept the clock is
\* not either: that specification abstracts from time.)
Tick(d) == IF log.rec THEN clock + d ELSE clock

\* setup(): the delays, the NVS read and the identification line
Setup ==
    /\ pc = "setup"
    /\ g_calFactor' = PrefsGet(prefs, "cal_f", ToFloat(1))
    /\ g_tareOffset' = PrefsGet(prefs, "tare", 0)
    /\ clock' = Tick(SETUP_DELAY_MS)
    /\ tx' = << Reply("HELLO:ESP32-HX711") >>
    /\ pc' = "cycle"
    /\ last' = [op |-> "setup"]
    /\ UNCHANGED << prefs, rb, first, iir_value, lastStableRefMs, stable, last_grams,
                    cmdLine, cmdOverflow, rx, hist, refPoint, inBand, timerStart,
                    lineLen, log, host, nCycles >>

\* loop(), steps 1 to 4: sample, median + IIR, stability, report
Cycle(e) ==
    /\ pc = "cycle"
    /\ nCycles < e.maxCycles
    /\ \E raw \in e.raws, lat \in e.lats :
         LET now    == Tick(lat)
             rb1    == RbAdd(rb, raw)
             useMed == RbSize(rb1) >= 3
             g      == RawToGrams(RbMedian(rb1))
             iir1   == IF useMed THEN IirNext(first, iir_value, g) ELSE iir_value
             grams  == IF useMed THEN iir1 ELSE RawToGrams(raw)
             within == WithinDelta(grams, last_grams)
             st1    == StableNext(stable, within, now, lastStableRefMs)
         IN  /\ rb' = rb1
             /\ first' = (first /\ ~useMed)
             /\ iir_value' = iir1
             /\ stable' = st1
             /\ lastStableRefMs' = IF within THEN lastStableRefMs ELSE now
             /\ last_grams' = grams
             /\ clock' = now
             /\ tx' = << Report(grams, st1) >>
             /\ hist' = IF log.rec THEN Append(hist, raw) ELSE hist
             /\ refPoint' = IF within THEN refPoint ELSE grams
             /\ inBand' = IF within
                          THEN inBand /\ Abs(grams - refPoint) <= STABLE_DELTA_G
                          ELSE TRUE
             /\ timerStart' = IF within THEN timerStart ELSE now
             /\ last' = [op |-> "cycle", raw |-> raw, now |-> now, grams |-> grams,
                         excursion |-> ~within, useMed |-> useMed,
                         wasFirst |-> first, prevIir |-> iir_value]
    /\ pc' = "drain"
    /\ nCycles' = IF log.rec THEN nCycles + 1 ELSE nCycles
    /\ UNCHANGED << g_calFactor, g_tareOffset, prefs, cmdLine, cmdOverflow, rx,
                    lineLen, log, host >>

----------------------------------------------------------------------------
(* The command path: loop() step 5 and handleCommand *)

\* LineHasRoom with a seeded fault: <= for <
LineHasRoomOffByOne(s) == Len(s) <= CMD_MAX_LEN

\* LineHasRoom with a seeded fault: no limit
LineHasRoomAlways(s) == TRUE

\* cmdLine.length() < CMD_MAX_LEN
LineHasRoom(s) == Len(s) < CMD_MAX_LEN

\* c == '\r' || c == '\n'
IsTerminator(c) == c \in {CR, LF}

\* IsTare with a seeded fault: startsWith for ==
IsTareLoose(line) == StartsWith(line, << "T" >>) \/ StartsWith(line, << "t" >>)

\* line == "T" || line == "t"
IsTare(line) == line = << "T" >> \/ line = << "t" >>

\* line.startsWith("C:") || line.startsWith("c:")
IsCal(line) == StartsWith(line, << "C", ":" >>) \/ StartsWith(line, << "c", ":" >>)

\* w = line.substring(2); w.trim(); peso_ref = w.toFloat()
PesoRef(line) == StrToFloat(Trim(Substring(line, 2)))

\* WeightRejected with a seeded fault: < for <=
WeightRejectedStrict(peso) == peso < 0

\* peso_ref <= 0.0f
WeightRejected(peso) == peso <= 0

RECURSIVE SeqSum(_)
SeqSum(s) == IF s = << >> THEN 0 ELSE Head(s) + SeqSum(Tail(s))

\* BurstMean with a seeded fault: the quotient rounded down instead of toward zero
BurstMeanFloor(burst) == SeqSum(burst) \div CAL_N

\* r_mean = acc / N, acc the sum of the N samples of the burst
BurstMean(burst) == TruncDiv(SeqSum(burst), CAL_N)

\* NetRaw with seeded faults: the operands swapped; the offset added
NetRawSwapped(mean, tare) == tare - mean

NetRawPlus(mean, tare) == mean + tare

\* r_net = r_mean - g_tareOffset
NetRaw(mean, tare) == mean - tare

\* (float)peso_ref / (float)r_net
CalFactor(peso, net) == FDiv(peso, ToFloat(net))

\* the bursts explored: k samples of one value followed by CAL_N - k of another
Bursts(raws, mixes) ==
    { [i \in 1..CAL_N |-> IF i <= k THEN hi ELSE lo] : lo \in raws, hi \in raws, k \in mixes }

\* the top of the while loop: a byte is available and it is a terminator / it is not
AtTerminator == pc = "drain" /\ rx # << >> /\ IsTerminator(Head(rx))

AtChar == pc = "drain" /\ rx # << >> /\ ~IsTerminator(Head(rx))

\* cmdLine.trim(); cmdLine.length() > 0: handleCommand(cmdLine) is called
Dispatched == AtTerminator /\ ~cmdOverflow /\ Len(Trim(cmdLine)) > 0

\* EndOfLine with a seeded fault: cmdOverflow is not cleared
EndOfLineKeepsFlag ==
    /\ rx' = Tail(rx)
    /\ cmdLine' = << >>
    /\ cmdOverflow' = cmdOverflow
    /\ lineLen' = 0
    /\ log' = IF log.rec
              THEN [log EXCEPT !.fed = Append(@, Head(rx)),
                               !.lines = Append(@, [text |-> cmdLine, ovf |-> cmdOverflow])]
              ELSE log

\* cmdLine = ""; cmdOverflow = false, and the byte is consumed
EndOfLine ==
    /\ rx' = Tail(rx)
    /\ cmdLine' = << >>
    /\ cmdOverflow' = FALSE
    /\ lineLen' = 0
    /\ log' = IF log.rec
              THEN [log EXCEPT !.fed = Append(@, Head(rx)),
                               !.lines = Append(@, [text |-> cmdLine, ovf |-> cmdOverflow])]
              ELSE log

SignalUnchanged ==
    UNCHANGED << rb, first, iir_value, lastStableRefMs, stable, last_grams,
                 hist, refPoint, inBand, timerStart, pc, host, nCycles >>

\* a terminator after an overflow: ERR:CMDLEN
LineTooLong ==
    /\ AtTerminator
    /\ cmdOverflow
    /\ tx' = << Reply("ERR:CMDLEN") >>
    /\ last' = [op |-> "cmdlen", line |-> cmdLine, got |-> lineLen, reads |-> 0]
    /\ EndOfLine
    /\ SignalUnchanged
    /\ UNCHANGED << g_calFactor, g_tareOffset, prefs, clock >>

\* a terminator after an empty or blank line: nothing is called
LineEmpty ==
    /\ AtTerminator
    /\ ~cmdOverflow
    /\ Len(Trim(cmdLine)) = 0
    /\ tx' = << >>
    /\ last' = [op |-> "empty", line |-> cmdLine, got |-> lineLen, reads |-> 0]
    /\ EndOfLine
    /\ SignalUnchanged
    /\ UNCHANGED << g_calFactor, g_tareOffset, prefs, clock >>

\* CmdTare with a seeded fault: the sample is added to the offset in force
CmdTareRelative(e) ==
    /\ Dispatched
    /\ IsTare(Trim(cmdLine))
    /\ \E r \in e.raws :
         /\ g_tareOffset' = g_tareOffset + r
         /\ prefs' = PrefsPut(prefs, "tare", g_tareOffset + r)
         /\ last' = [op |-> "tare", line |-> cmdLine, got |-> lineLen, reads |-> 1,
                     raw |-> r, was |-> g_tareOffset]
    /\ tx' = << Reply("ACK:T") >>
    /\ EndOfLine
    /\ SignalUnchanged
    /\ UNCHANGED << g_calFactor, clock >>

\* handleCommand, "T": tare
CmdTare(e) ==
    /\ Dispatched
    /\ IsTare(Trim(cmdLine))
    /\ \E r \in e.raws :
         /\ g_tareOffset' = r
         /\ prefs' = PrefsPut(prefs, "tare", r)
         /\ last' = [op |-> "tare", line |-> cmdLine, got |-> lineLen, reads |-> 1,
                     raw |-> r, was |-> g_tareOffset]
    /\ tx' = << Reply("ACK:T") >>
    /\ EndOfLine
    /\ SignalUnchanged
    /\ UNCHANGED << g_calFactor, clock >>

\* handleCommand, "C:<peso>" with peso <= 0: ERR:CAL:weight
CmdCalWeight ==
    /\ Dispatched
    /\ ~IsTare(Trim(cmdLine))
    /\ IsCal(Trim(cmdLine))
    /\ WeightRejected(PesoRef(Trim(cmdLine)))
    /\ tx' = << Reply("ERR:CAL:weight") >>
    /\ last' = [op |-> "cal_weight", line |-> cmdLine, got |-> lineLen, reads |-> 0,
                peso |-> PesoRef(Trim(cmdLine))]
    /\ EndOfLine
    /\ SignalUnchanged
    /\ UNCHANGED << g_calFactor, g_tareOffset, prefs, clock >>

\* handleCommand, "C:<peso>" with peso > 0: the burst, then ERR:CAL:zero or the new factor
CmdCalibrate(e) ==
    /\ Dispatched
    /\ ~IsTare(Trim(cmdLine))
    /\ IsCal(Trim(cmdLine))
    /\ ~WeightRejected(PesoRef(Trim(cmdLine)))
    /\ \E burst \in Bursts(e.raws, e.mixes) :
         LET peso   == PesoRef(Trim(cmdLine))
             r_mean == BurstMean(burst)
             r_net  == NetRaw(r_mean, g_tareOffset)
             ev     == [line |-> cmdLine, got |-> lineLen, reads |-> Len(burst),
                        peso |-> peso, acc |-> SeqSum(burst), net |-> r_net,
                        tare |-> g_tareOffset]
         IN  IF r_net = 0
             THEN /\ tx' = << Reply("ERR:CAL:zero") >>
                  /\ last' = [op |-> "cal_zero"] @@ ev
                  /\ UNCHANGED << g_calFactor, prefs >>
             ELSE /\ g_calFactor' = CalFactor(peso, r_net)
                  /\ prefs' = PrefsPut(prefs, "cal_f", CalFactor(peso, r_net))
                  /\ tx' = << AckCal(CalFactor(peso, r_net)) >>
                  /\ last' = [op |-> "cal_ok"] @@ ev
    /\ clock' = Tick(CAL_N * CAL_DELAY_MS)
    /\ EndOfLine
    /\ SignalUnchanged
    /\ UNCHANGED << g_tareOffset >>

\* CmdUnknown with a seeded fault: the offset is cleared
CmdUnknownClears ==
    /\ Dispatched
    /\ ~IsTare(Trim(cmdLine))
    /\ ~IsCal(Trim(cmdLine))
    /\ tx' = << Reply("ERR:UNKNOWN_CMD") >>
    /\ last' = [op |-> "unknown", line |-> cmdLine, got |-> lineLen, reads |-> 0]
    /\ g_tareOffset' = 0
    /\ EndOfLine
    /\ SignalUnchanged
    /\ UNCHANGED << g_calFactor, prefs, clock >>

\* handleCommand, any other line: ERR:UNKNOWN_CMD
CmdUnknown ==
    /\ Dispatched
    /\ ~IsTare(Trim(cmdLine))
    /\ ~IsCal(Trim(cmdLine))
    /\ tx' = << Reply("ERR:UNKNOWN_CMD") >>
    /\ last' = [op |-> "unknown", line |-> cmdLine, got |-> lineLen, reads |-> 0]
    /\ EndOfLine
    /\ SignalUnchanged
    /\ UNCHANGED << g_calFactor, g_tareOffset, prefs, clock >>

\* a byte that is no terminator: appended, or dropped once the line is full
DrainChar ==
    /\ AtChar
    /\ rx' = Tail(rx)
    /\ IF cmdOverflow
       THEN UNCHANGED << cmdLine, cmdOverflow >>
       ELSE IF LineHasRoom(cmdLine)
            THEN cmdLine' = Append(cmdLine, Head(rx)) /\ UNCHANGED cmdOverflow
            ELSE cmdOverflow' = TRUE /\ UNCHANGED cmdLine
    /\ lineLen' = lineLen + 1
    /\ log' = IF log.rec THEN [log EXCEPT !.fed = Append(@, Head(rx))] ELSE log
    /\ tx' = << >>
    /\ last' = [op |-> "char", c |-> Head(rx)]
    /\ SignalUnchanged
    /\ UNCHANGED << g_calFactor, g_tareOffset, prefs, clock >>

\* DrainEnd with a seeded fault: the line assembled so far is dropped at the end of the
\* cycle
DrainEndForgets ==
    /\ pc = "drain"
    /\ rx = << >>
    /\ clock' = Tick(1000 \div LOOP_HZ)
    /\ pc' = "cycle"
    /\ tx' = << >>
    /\ cmdLine' = << >>
    /\ cmdOverflow' = FALSE
    /\ last' = [op |-> "delay"]
    /\ UNCHANGED << g_calFactor, g_tareOffset, prefs, rb, first, iir_value,
                    lastStableRefMs, stable, last_grams, rx,
                    hist, refPoint, inBand, timerStart, lineLen, log, host, nCycles >>

\* DrainEnd with a seeded fault: a line is printed at the end of every drain
DrainEndChatty ==
    /\ pc = "drain"
    /\ rx = << >>
    /\ clock' = Tick(1000 \div LOOP_HZ)
    /\ pc' = "cycle"
    /\ tx' = << Reply("ACK:T") >>
    /\ last' = [op |-> "delay"]
    /\ UNCHANGED << g_calFactor, g_tareOffset, prefs, rb, first, iir_value,
                    lastStableRefMs, stable, last_grams, cmdLine, cmdOverflow, rx,
                    hist, refPoint, inBand, timerStart, lineLen, log, host, nCycles >>

\* Serial1.available() is 0: the while loop ends; step 6, delay(1000 / LOOP_HZ)
DrainEnd ==
    /\ pc = "drain"
    /\ rx = << >>
    /\ clock' = Tick(1000 \div LOOP_HZ)
    /\ pc' = "cycle"
    /\ tx' = << >>
    /\ last' = [op |-> "delay"]
    /\ UNCHANGED << g_calFactor, g_tareOffset, prefs, rb, first, iir_value,
                    lastStableRefMs, stable, last_grams, cmdLine, cmdOverflow, rx,
                    hist, refPoint, inBand, timerStart, lineLen, log, host, nCycles >>

\* the host puts its next byte on the line
HostSend ==
    /\ pc # "setup"
    /\ host # << >>
    /\ Len(rx) < RxCap
    /\ rx' = Append(rx, Head(host))
    /\ host' = Tail(host)
    /\ tx' = << >>
    /\ last' = [op |-> "host"]
    /\ UNCHANGED << g_calFactor, g_tareOffset, prefs, rb, first, iir_value,
                    lastStableRefMs, stable, last_grams, cmdLine, cmdOverflow, clock, pc,
                    hist, refPoint, inBand, timerStart, lineLen, log, nCycles >>

Step(e) ==
    \/ Setup
    \/ Cycle(e)
    \/ LineTooLong
    \/ LineEmpty
    \/ CmdTare(e)
    \/ CmdCalWeight
    \/ CmdCalibrate(e)
    \/ CmdUnknown
    \/ DrainChar
    \/ DrainEnd
    \/ HostSend

----------------------------------------------------------------------------
(* Environments *)

Fill(c, n) == [i \in 1..n |-> c]

Terminators == { << CR >>, << LF >>, << CR, LF >> }

\* the lines of the command specification
CmdLines ==
    { << "T" >>, << "t" >>, << " ", "T", " " >>, << "T", "T" >>, << "X" >>,
      << >>, << " " >>,
      << "C", ":", "5" >>, << "c", ":", "5" >>, << "C", ":", " ", "5" >>,
      << "C", ":", "-", "5" >>, << "c", ":", "-", "5" >>, << "C", ":", "0" >>,
      << "C", ":" >>, << "C", ":", "x" >>,
      << "C", "5" >>,
      << "T" >> \o Fill("x", CMD_MAX_LEN),
      << "T" >> \o Fill(" ", CMD_MAX_LEN),
      << "C", ":", "5" >> \o Fill("0", CMD_MAX_LEN - 2),
      << "C", ":", "5" >> \o Fill(" ", CMD_MAX_LEN - 3),
      Fill("x", CMD_MAX_LEN),
      Fill("x", CMD_MAX_LEN + 3) }

CmdStreams == { l \o t : l \in CmdLines, t \in Terminators }

\* a Tare that follows an oversized, an unknown, a rejected line
FollowStreams ==
    { l \o << LF, "T", LF >> :
        l \in { Fill("x", CMD_MAX_LEN + 1), << "X" >>, << "C", ":", "0" >> } }

EnvCmd ==
    [raws |-> {-1, 1}, mixes |-> 0..CAL_N, lats |-> {0},
     streams |-> CmdStreams \cup FollowStreams, timed |-> TRUE,
     stores |-> { NvsEmpty, PrefsPut(NvsEmpty, "tare", 1) },
     maxCycles |-> MaxCyclesCmd]

SigStreams == { << >>, << "T", LF >>, << "C", ":", "5", LF >> }

EnvSig ==
    [raws |-> {-1, 1, 2}, mixes |-> {0}, lats |-> {0, MaxLatency}, streams |-> SigStreams, timed |-> TRUE,
     stores |-> { NvsEmpty },
     maxCycles |-> MaxCycles]

\* the command protocol, under every split of the host's bytes over the cycles
InitCmd == Init(EnvCmd)
NextCmd == Step(EnvCmd)
Spec == InitCmd /\ [][NextCmd]_vars

\* the signal path
InitSig == Init(EnvSig)
NextSig ==
    \/ Setup
    \/ Cycle(EnvSig)
    \/ CmdTare(EnvSig)
    \/ CmdCalibrate(EnvSig)
    \/ DrainChar
    \/ DrainEnd
    \/ HostSend
SpecSig == InitSig /\ [][NextSig]_vars

-----------------------------------------------------------------------------
(* The persistent store: two lines in a row, and a power cut at any point after *)
(* startup.  The NVS keeps its contents; everything else starts anew.            *)

\* the number of power cuts
MaxRestarts == 1

\* power is cut and restored: the globals and the statics are constructed again, the
\* bytes in the UART are lost, setup() runs next
Restart ==
    /\ pc # "setup"
    /\ log.boots < MaxRestarts
    /\ g_calFactor' = ToFloat(1)
    /\ g_tareOffset' = 0
    /\ rb' = RbNew
    /\ first' = TRUE
    /\ iir_value' = 0
    /\ lastStableRefMs' = 0
    /\ stable' = FALSE
    /\ last_grams' = 0
    /\ cmdLine' = << >>
    /\ cmdOverflow' = FALSE
    /\ rx' = << >>
    /\ tx' = << >>
    /\ clock' = 0
    /\ pc' = "setup"
    /\ hist' = << >>
    /\ refPoint' = 0
    /\ inBand' = TRUE
    /\ timerStart' = 0
    /\ lineLen' = 0
    /\ last' = [op |-> "restart"]
    /\ log' = [log EXCEPT !.fed = << >>, !.lines = << >>, !.boots = @ + 1,
                          !.cal = g_calFactor, !.tare = g_tareOffset]
    /\ UNCHANGED << prefs, host, nCycles >>

StoreLines == { << "T" >>, << "C", ":", "5" >>, << "C", ":", "0" >>, << "X" >> }

StoreStreams == { a \o << LF >> \o b \o << LF >> : a \in StoreLines, b \in StoreLines }

EnvStore ==
    [raws |-> {-1, 1}, mixes |-> {0, CAL_N \div 2}, lats |-> {0}, streams |-> StoreStreams,
     timed |-> TRUE,
     stores |-> { NvsEmpty, PrefsPut(NvsEmpty, "tare", 1) },
     maxCycles |-> MaxCyclesCmd]

InitStore == Init(EnvStore)
NextStore ==
    \/ Setup
    \/ Cycle(EnvStore)
    \/ CmdTare(EnvStore)
    \/ CmdCalWeight
    \/ CmdCalibrate(EnvStore)
    \/ CmdUnknown
    \/ DrainChar
    \/ DrainEnd
    \/ HostSend
    \/ Restart
SpecStore == InitStore /\ [][NextStore]_vars

-----------------------------------------------------------------------------
(* A host that never stops: it repeats one Calibrate command for ever.  A byte   *)
(* needs some 87 us to arrive at 115200 baud, far longer than one pass of the    *)
(* drain loop over a plain character, so bytes arrive only during the steps that *)
(* take time: setup, the readRaw of a cycle or of a Tare, a calibration burst    *)
(* (at least 100 ms), the delay that ends a cycle.                               *)

\* the bytes the UART buffers while the program is busy
LiveRxCap == 4

LiveStream == << "C", ":", "5", LF >>

\* the steps during which bytes arrive
SlowOps == {"setup", "cycle", "tare", "cal_zero", "cal_ok", "delay", "host"}

\* the host puts the next byte of its endless stream on the line
HostRepeat ==
    /\ pc # "setup"
    /\ last.op \in SlowOps
    /\ host # << >>
    /\ Len(rx) < LiveRxCap
    /\ rx' = Append(rx, Head(host))
    /\ host' = Append(Tail(host), Head(host))
    /\ tx' = << >>
    /\ last' = [op |-> "host"]
    /\ UNCHANGED << g_calFactor, g_tareOffset, prefs, rb, first, iir_value,
                    lastStableRefMs, stable, last_grams, cmdLine, cmdOverflow, clock, pc,
                    hist, refPoint, inBand, timerStart, lineLen, log, nCycles >>

EnvLive ==
    [raws |-> {1}, mixes |-> {0}, lats |-> {0}, streams |-> { LiveStream }, timed |-> FALSE,
     stores |-> { NvsEmpty },
     maxCycles |-> 1]

InitLive == Init(EnvLive)

\* the steps of the program: setup() once, then loop() again and again
DeviceLive ==
    \/ Setup
    \/ Cycle(EnvLive)
    \/ CmdCalibrate(EnvLive)
    \/ DrainChar
    \/ DrainEnd

NextLive == DeviceLive \/ HostRepeat

\* the program executes its next statement: setup() returns, loop() passes from the
\* report to the drain, reads a byte, or leaves the drain for the next cycle.  Every
\* step of DeviceLive is one and no step of the host is; one is possible in every state.
ProgramStep ==
    \/ pc = "setup" /\ pc' = "cycle" /\ rx' = rx
    \/ pc = "cycle" /\ pc' = "drain" /\ rx' = rx
    \/ pc = "drain" /\ rx # << >> /\ rx' = Tail(rx) /\ pc' = pc
    \/ pc = "drain" /\ rx = << >> /\ pc' = "cycle" /\ rx' = rx

\* the processor never stops: the program always takes its next step
SpecLive == InitLive /\ [][NextLive]_vars /\ WF_<< pc, rx >>(ProgramStep)

----------------------------------------------------------------------------
(* RingBuffer alone: a sequence of add calls *)

RingSamples == {-3, 7}

RingAdd ==
    /\ Len(hist) < MaxAdds
    /\ \E v \in RingSamples :
         /\ rb' = RbAdd(rb, v)
         /\ hist' = Append(hist, v)
    /\ UNCHANGED << g_calFactor, g_tareOffset, prefs, first, iir_value, lastStableRefMs,
                    stable, last_grams, cmdLine, cmdOverflow, rx, tx, clock, pc,
                    refPoint, inBand, timerStart, last, lineLen, log, host, nCycles >>

InitRing == Init([streams |-> { << >> }, stores |-> { NvsEmpty }, timed |-> TRUE])
NextRing == RingAdd
SpecRing == InitRing /\ [][NextRing]_vars

----------------------------------------------------------------------------
(* Properties *)

\* the last min(k, N) samples passed to RingBuffer::add, k = Len(hist)
LastInserted ==
    LET n == Min(Len(hist), MEDIAN_WINDOW) IN SubSeq(hist, Len(hist) - n + 1, Len(hist))

CountLess(w, x) == Cardinality({ i \in DOMAIN w : w[i] < x })

CountLeq(w, x) == Cardinality({ i \in DOMAIN w : w[i] <= x })

\* x is the k-th smallest element of w (k from 1), counted with multiplicity
IsKthSmallest(w, x, k) == CountLess(w, x) < k /\ k <= CountLeq(w, x)

\* C1 as stated: with at least 3 samples in the history, median() is the median of the
\* last min(k, N) inserted samples, the lower of the two middle elements when their
\* number is even.
C1_MedianLowerMiddle ==
    RbSize(rb) >= 3 =>
        /\ RbSize(rb) = Len(LastInserted)
        /\ IsKthSmallest(LastInserted, RbMedian(rb), (Len(LastInserted) + 1) \div 2)

\* C1 as amended: with at least 3 samples in the history, median() is the median of the
\* last min(k, N) inserted samples, the upper of the two middle elements (sorted index
\* count / 2, from 0) when their number is even.
C1_MedianUpperMiddle ==
    RbSize(rb) >= 3 =>
        /\ RbSize(rb) = Len(LastInserted)
        /\ IsKthSmallest(LastInserted, RbMedian(rb), (Len(LastInserted) \div 2) + 1)

\* the buffer has wrapped, and the sample it dropped is not the median of the rest
C1_Witness ==
    /\ Len(hist) > MEDIAN_WINDOW
    /\ RbSize(rb) = MEDIAN_WINDOW
    /\ hist[1] # RbMedian(rb)
    /\ \E i \in DOMAIN LastInserted : LastInserted[i] # RbMedian(rb)

\* the latest step was a control cycle and its report carries S:1
ReportedStable == last.op = "cycle" /\ tx[1].s = 1

\* C2: in every cycle whose report carries S:1, every cycle since the reference point
\* was last set (0 at start, the weight of the latest cycle that recorded an excursion
\* afterwards) reported a weight within delta of that reference point.
C2_StableWithinReference == ReportedStable => inBand

\* C3: the stable flag goes from true to false only in a cycle whose weight is more
\* than delta away from the reference point (the weight at the latest excursion, 0
\* before any).
C3_StableUntilExcursion ==
    [][(stable /\ ~stable') => Abs(last_grams' - refPoint) > STABLE_DELTA_G]_vars

\* C4: a report carries S:1 only if at least STABLE_MS have passed since the stability
\* timer was last restarted (process start before any excursion), and the report of a
\* cycle that records an excursion carries S:0.
C4_StableOnlyAfterHold ==
    last.op = "cycle" =>
        /\ tx[1].s = 1 => clock - timerStart >= STABLE_MS
        /\ last.excursion => tx[1].s = 0

\* S:1 is reported again after an excursion
C4_Witness == ReportedStable /\ timerStart > 0 /\ clock - timerStart >= STABLE_MS

\* the net raw value of the latest calibration, from the samples it read
BurstNet == TruncDiv(last.acc, CAL_N) - last.tare

\* C5 as stated: after a Calibrate that replied ACK:C, CalibrationFactor > 0.
C5_FactorPositive == last.op = "cal_ok" => g_calFactor > 0

\* C5 as amended: after a Calibrate that replied ACK:C, CalibrationFactor has the sign
\* of (truncated burst mean - TareOffset): it is not negative when the mean is above
\* TareOffset and not positive when it is below.
C5_FactorSign ==
    last.op = "cal_ok" =>
        /\ BurstNet > 0 => g_calFactor >= 0
        /\ BurstNet < 0 => g_calFactor <= 0

\* a calibration succeeded on a burst below TareOffset and left a negative factor
C5_Witness == last.op = "cal_ok" /\ BurstNet < 0 /\ g_calFactor < 0

\* a step of loop() that reads a terminator
TerminatorStep == AtTerminator /\ rx' = Tail(rx) /\ pc' = pc

\* C6: the terminator of a line of more than CMD_MAX_LEN characters is answered with
\* exactly ERR:CMDLEN and executes nothing (no raw sample read; TareOffset,
\* CalibrationFactor and the store unchanged); the terminator of a line of at most
\* CMD_MAX_LEN characters is never answered with ERR:CMDLEN.
C6_OversizedLine ==
    [][TerminatorStep =>
         IF lineLen > CMD_MAX_LEN
         THEN /\ tx' = << Reply("ERR:CMDLEN") >>
              /\ last'.reads = 0
              /\ UNCHANGED << g_tareOffset, g_calFactor, prefs >>
         ELSE Reply("ERR:CMDLEN") \notin { tx'[i] : i \in DOMAIN tx' }]_vars

\* an oversized line that starts like a calibration was answered ERR:CMDLEN
C6_Witness ==
    /\ last.op = "cmdlen"
    /\ last.got = CMD_MAX_LEN + 1
    /\ StartsWith(last.line, << "C", ":", "5" >>)

\* the text handleCommand gets for the line that ends now
TrimmedLine == Trim(cmdLine)

\* that text has the shape C:<payload> or c:<payload>
CalShaped ==
    /\ Len(TrimmedLine) >= 2
    /\ TrimmedLine[1] \in {"C", "c"}
    /\ TrimmedLine[2] = ":"

\* C7: a line C:<weight> or c:<weight> whose payload parses to a value <= 0 is answered
\* ERR:CAL:weight, reads no sample, and leaves CalibrationFactor, TareOffset and the
\* store unchanged.
C7_InvalidWeight ==
    [][(TerminatorStep /\ lineLen <= CMD_MAX_LEN /\ CalShaped
          /\ StrToFloat(Trim(Substring(TrimmedLine, 2))) <= 0) =>
         /\ tx' = << Reply("ERR:CAL:weight") >>
         /\ last'.reads = 0
         /\ UNCHANGED << g_calFactor, g_tareOffset, prefs >>]_vars

\* C:0 was answered ERR:CAL:weight
C7_Witness ==
    /\ last.op = "cal_weight"
    /\ last.peso = 0
    /\ Trim(last.line) = << "C", ":", "0" >>

\* the latest step ran a calibration burst
BurstStep == last'.op \in {"cal_zero", "cal_ok"}

\* C8: a Calibrate with positive weight whose CAL_N samples average exactly to
\* TareOffset is answered ERR:CAL:zero and leaves CalibrationFactor and its stored copy
\* unchanged.
C8_ZeroNet ==
    [][(BurstStep /\ last'.acc = CAL_N * g_tareOffset) =>
         /\ tx' = << Reply("ERR:CAL:zero") >>
         /\ UNCHANGED << g_calFactor, prefs >>]_vars

\* a burst that averages exactly to a nonzero TareOffset was refused
C8_Witness ==
    /\ last.op = "cal_zero"
    /\ last.tare # 0
    /\ last.acc = CAL_N * last.tare

\* C9 as stated: with m the arithmetic mean of the burst, m # TareOffset gives
\* CalibrationFactor = w / (m - TareOffset), stored and replied; ERR:CAL:zero only when
\* m = TareOffset.
C9_ExactMean ==
    last.op \in {"cal_zero", "cal_ok"} =>
        IF last.acc # CAL_N * last.tare
        THEN /\ last.op = "cal_ok"
             /\ g_calFactor = FDiv(CAL_N * last.peso, ToFloat(last.acc - CAL_N * last.tare))
        ELSE last.op = "cal_zero"

\* C9 as amended: with m the sum of the burst divided by CAL_N and rounded toward zero,
\* m # TareOffset gives CalibrationFactor = w / (m - TareOffset), stored and replied with
\* ACK:C; ERR:CAL:zero exactly when m = TareOffset.
C9_TruncatedMean ==
    last.op \in {"cal_zero", "cal_ok"} =>
        IF BurstNet # 0
        THEN /\ last.op = "cal_ok"
             /\ g_calFactor = FDiv(last.peso, ToFloat(BurstNet))
             /\ prefs.cal_f = [set |-> TRUE, val |-> g_calFactor]
             /\ tx = << AckCal(g_calFactor) >>
        ELSE /\ last.op = "cal_zero"
             /\ tx = << Reply("ERR:CAL:zero") >>

\* a calibration succeeded on a burst whose sum is negative and no multiple of CAL_N
C9_Witness ==
    /\ last.op = "cal_ok"
    /\ last.acc < 0
    /\ last.acc % CAL_N # 0
    /\ g_calFactor = FDiv(last.peso, ToFloat(BurstNet))

\* C10: a line of at most CMD_MAX_LEN characters that is not empty after trimming, is
\* not exactly T or t and does not start with C: or c: is answered ERR:UNKNOWN_CMD,
\* changes no state (TareOffset, CalibrationFactor, store, filter, stability) and is
\* consumed: the line buffer is empty afterwards.
C10_UnknownCommand ==
    [][(TerminatorStep /\ lineLen <= CMD_MAX_LEN /\ TrimmedLine # << >>
          /\ TrimmedLine \notin { << "T" >>, << "t" >> } /\ ~CalShaped) =>
         /\ tx' = << Reply("ERR:UNKNOWN_CMD") >>
         /\ UNCHANGED << g_tareOffset, g_calFactor, prefs, rb, first, iir_value,
                         lastStableRefMs, stable, last_grams >>
         /\ cmdLine' = << >>
         /\ cmdOverflow' = FALSE]_vars

\* a line that starts with T but is not T was answered ERR:UNKNOWN_CMD and consumed
C10_Witness ==
    /\ last.op = "unknown"
    /\ Head(Trim(last.line)) = "T"
    /\ cmdLine = << >>

\* the replies handleCommand and the drain can print
ReplyKinds ==
    {"ACK:T", "ACK:C", "ERR:CAL:weight", "ERR:CAL:zero", "ERR:UNKNOWN_CMD", "ERR:CMDLEN"}

\* the line assembled so far holds a character that is no white space
HasText == \E i \in DOMAIN cmdLine : ~IsSpace(cmdLine[i])

\* C11: the terminator of a line that overflowed, or that holds a character other than
\* white space, is answered with exactly one reply, one of ACK:T, ACK:C:<factor>,
\* ERR:CAL:weight, ERR:CAL:zero, ERR:UNKNOWN_CMD, ERR:CMDLEN; the terminator of an empty
\* or blank line (so the LF of a CR LF pair) is answered with nothing.
C11_OneReplyPerLine ==
    [][TerminatorStep =>
         IF lineLen > CMD_MAX_LEN \/ HasText
         THEN Len(tx') = 1 /\ tx'[1].msg \in ReplyKinds
         ELSE tx' = << >>]_vars

\* T CR LF has been read: the CR was answered ACK:T, the LF with nothing
C11_Witness ==
    /\ last.op = "empty"
    /\ tx = << >>
    /\ log.fed = << "T", CR, LF >>
    /\ log.lines = << [text |-> << "T" >>, ovf |-> FALSE], [text |-> << >>, ovf |-> FALSE] >>

\* C12: whatever the host sends, and however long it keeps sending, a further report
\* line is always eventually emitted: the control loop is never suspended for ever.
C12_ReportsForever == []<>(last.op = "cycle")

\* a step that runs steps 1 to 4 of loop(), up to the report
ReportStep == pc = "cycle" /\ pc' = "drain"

\* the lines printed by a step that is not the report of a cycle are replies, at most
\* one, printed by the step that reads a line's terminator during the drain
OnlyReplies ==
    tx' # << >> =>
        /\ TerminatorStep
        /\ pc' = "drain"
        /\ Len(tx') = 1
        /\ tx'[1].msg \in ReplyKinds

\* C13 as stated: every cycle prints exactly one report line, and every other line
\* sent to the host is the reply to a terminated inbound line, printed during the
\* drain of the cycle that read the terminator.
C13_OnlyReportsAndReplies ==
    [][IF ReportStep
       THEN Len(tx') = 1 /\ tx'[1].msg = "G"
       ELSE OnlyReplies]_vars

\* C13 as amended: the same, except for the identification line that setup() prints.
C13_ReportsRepliesAndHello ==
    [][IF ReportStep
       THEN Len(tx') = 1 /\ tx'[1].msg = "G"
       ELSE IF pc = "setup"
       THEN tx' = << Reply("HELLO:ESP32-HX711") >> /\ pc' = "cycle"
       ELSE OnlyReplies]_vars

\* the second cycle has printed its report after the first one answered a Tare
C13_Witness ==
    /\ last.op = "cycle"
    /\ nCycles = 2
    /\ \E i \in DOMAIN log.lines : log.lines[i].text = << "T" >>
    /\ Len(tx) = 1
    /\ tx[1].msg = "G"

\* the value the store holds for a key, the default if the key was never written
Stored(key, default) == IF prefs[key].set THEN prefs[key].val ELSE default

\* C14: once setup() has run, and after every command, CalibrationFactor and TareOffset
\* equal the values in the store (1.0 and 0 for a key never written); the setup() that
\* follows a power cut restores exactly the values in force when the power was cut.
C14_StoreMatchesMemory ==
    /\ pc # "setup" =>
         /\ g_calFactor = Stored("cal_f", ToFloat(1))
         /\ g_tareOffset = Stored("tare", 0)
    /\ (last.op = "setup" /\ log.boots > 0) =>
         /\ g_calFactor = log.cal
         /\ g_tareOffset = log.tare
    /\ (last.op = "setup" /\ prefs = NvsEmpty) =>
         /\ g_calFactor = ToFloat(1)
         /\ g_tareOffset = 0

\* setup() has run after a power cut and restored a factor and an offset that commands
\* had set
C14_Witness ==
    /\ last.op = "setup"
    /\ log.boots = 1
    /\ g_calFactor = log.cal
    /\ g_tareOffset = log.tare
    /\ g_calFactor # ToFloat(1)
    /\ g_tareOffset = -1

\* the step that ends a line T or t
TareStep ==
    TerminatorStep /\ lineLen <= CMD_MAX_LEN /\ TrimmedLine \in { << "T" >>, << "t" >> }

\* the line completed before the present one was a Tare
PrevWasTare ==
    /\ log.lines # << >>
    /\ ~log.lines[Len(log.lines)].ovf
    /\ Trim(log.lines[Len(log.lines)].text) \in { << "T" >>, << "t" >> }

\* C15: a Tare reads one raw sample, sets TareOffset and its stored copy to that sample
\* and replies ACK:T; a Tare that directly follows a Tare and reads the same sample
\* (the sample the first one read is the TareOffset in force) leaves TareOffset and the
\* store as the first one left them.
C15_TareIdempotent ==
    [][TareStep =>
         /\ tx' = << Reply("ACK:T") >>
         /\ last'.reads = 1
         /\ g_tareOffset' = last'.raw
         /\ prefs'.tare = [set |-> TRUE, val |-> last'.raw]
         /\ (PrevWasTare /\ last'.raw = g_tareOffset) =>
                UNCHANGED << g_tareOffset, prefs >>]_vars

\* the second of two Tares in a row has read the sample the first one read
C15_Witness ==
    /\ last.op = "tare"
    /\ Len(log.lines) = 2
    /\ log.lines[1].text = << "T" >>
    /\ last.raw = -1
    /\ last.was = -1
    /\ g_tareOffset = -1
    /\ prefs.tare = [set |-> TRUE, val |-> -1]

\* CalibrationFactor and TareOffset as the spec knows them: the values in memory, and
\* until setup() has loaded them the values in the store
Factor == IF pc = "setup" THEN Stored("cal_f", ToFloat(1)) ELSE g_calFactor

Offset == IF pc = "setup" THEN Stored("tare", 0) ELSE g_tareOffset

\* C16: CalibrationFactor changes only in a step that replies ACK:C, TareOffset only in
\* a step that replies ACK:T: a cycle, a byte added to the line, an error reply, an
\* empty line change neither, a Tare not the factor, a Calibrate not the offset.
C16_ChangeOnlyOnAck ==
    [][/\ Factor' # Factor => (Len(tx') = 1 /\ tx'[1].msg = "ACK:C")
       /\ Offset' # Offset => tx' = << Reply("ACK:T") >>]_vars

\* a Tare has changed TareOffset and left the factor that setup() loaded
C16_Witness ==
    /\ last.op = "tare"
    /\ tx = << Reply("ACK:T") >>
    /\ g_tareOffset # last.was
    /\ g_calFactor = Stored("cal_f", ToFloat(1))

\* a step of loop() that reads a byte that is no terminator
CharStep == AtChar /\ rx' = Tail(rx) /\ pc' = pc

\* C17: the line being assembled never holds more than CMD_MAX_LEN characters; once
\* it holds CMD_MAX_LEN, a further byte that is no terminator is discarded and sets the
\* overflow flag, and the flag and the line stay as they are until a terminator is read.
C17_LineBounded ==
    /\ [](Len(cmdLine) <= CMD_MAX_LEN)
    /\ [][(CharStep /\ Len(cmdLine) = CMD_MAX_LEN) =>
            (cmdLine' = cmdLine /\ cmdOverflow')]_vars
    /\ [][(cmdOverflow /\ ~TerminatorStep) =>
            (cmdLine' = cmdLine /\ cmdOverflow')]_vars

\* a line of CMD_MAX_LEN + 3 bytes: the first CMD_MAX_LEN are kept, three were discarded
C17_Witness ==
    /\ cmdOverflow
    /\ Len(cmdLine) = CMD_MAX_LEN
    /\ lineLen = CMD_MAX_LEN + 3
    /\ cmdLine = SubSeq(log.fed, 1, CMD_MAX_LEN)

\* C18: every step that reads a terminator leaves the line empty and the overflow flag
\* clear, whatever the line was (oversized, unknown, rejected, executed, empty): the
\* next line starts from the state the first line started from.
C18_AssemblerReset ==
    [][TerminatorStep => (cmdLine' = << >> /\ ~cmdOverflow' /\ lineLen' = 0)]_vars

\* a T that follows an oversized line has been executed as a Tare
C18_Witness ==
    /\ last.op = "tare"
    /\ last.line = << "T" >>
    /\ Len(log.lines) = 2
    /\ log.lines[1].ovf
    /\ tx = << Reply("ACK:T") >>
    /\ cmdLine = << >>
    /\ ~cmdOverflow

\* (raw - TareOffset) * CalibrationFactor
Conv(raw) == FMul(ToFloat(raw - g_tareOffset), g_calFactor)

\* the median of three values
Mid3(a, b, c) ==
    IF (a <= b /\ b <= c) \/ (c <= b /\ b <= a) THEN b
    ELSE IF (b <= a /\ a <= c) \/ (c <= a /\ a <= b) THEN a
    ELSE c

\* C19: a cycle that has fewer than three samples reports the conversion of its own raw
\* sample and leaves the smoother untouched; the cycle that has exactly three reports
\* the conversion of their median, which seeds the smoother; every later cycle reports
\* (1 - alpha) times the smoother's previous value plus alpha times the conversion of
\* the window's median.
C19_ColdStart ==
    last.op = "cycle" =>
        /\ Len(tx) = 1
        /\ IF Len(hist) < 3
           THEN /\ tx[1].val = Fmt2(Conv(last.raw))
                /\ iir_value = last.prevIir
                /\ first
           ELSE IF Len(hist) = 3
           THEN /\ iir_value = Conv(Mid3(hist[1], hist[2], hist[3]))
                /\ tx[1].val = Fmt2(iir_value)
                /\ ~first
           ELSE /\ iir_value = FMul(ToFloat(1) - IIR_ALPHA, last.prevIir)
                                 + FMul(IIR_ALPHA, Conv(RbMedian(rb)))
                /\ tx[1].val = Fmt2(iir_value)
                /\ ~first

\* the fourth cycle has blended: its weight is neither the seed nor the new median
C19_Witness ==
    /\ last.op = "cycle"
    /\ Len(hist) = 4
    /\ last.prevIir = Conv(Mid3(hist[1], hist[2], hist[3]))
    /\ last.prevIir # 0
    /\ iir_value # last.prevIir
    /\ iir_value # Conv(RbMedian(rb))

\* The reference assembler, fed a whole byte stream b at once: the stream is cut at its
\* terminators; a line is the bytes between two cuts, kept up to CMD_MAX_LEN and
\* flagged when there were more.
TermPos(b) == { i \in 1..Len(b) : IsTerminator(b[i]) }

\* the position of the k-th terminator of b, 0 for k = 0
Cut(b, k) ==
    IF k = 0 THEN 0
    ELSE CHOOSE p \in TermPos(b) : Cardinality({ q \in TermPos(b) : q < p }) = k - 1

Kept(seg) ==
    [text |-> SubSeq(seg, 1, Min(Len(seg), CMD_MAX_LEN)), ovf |-> Len(seg) > CMD_MAX_LEN]

RefLines(b) ==
    [k \in 1..Cardinality(TermPos(b)) |->
        Kept(SubSeq(b, Cut(b, k - 1) + 1, Cut(b, k) - 1))]

\* the line the reference assembler has not completed yet
RefPartial(b) == Kept(SubSeq(b, Cut(b, Cardinality(TermPos(b))) + 1, Len(b)))

\* C20: however the bytes were split over the cycles, the lines completed so far (text
\* and oversized flag) are those of the reference assembler fed all the bytes read so
\* far, and the line in progress and its overflow flag are the reference's.
C20_SplitIndependent ==
    /\ log.lines = RefLines(log.fed)
    /\ cmdLine = RefPartial(log.fed).text
    /\ cmdOverflow = RefPartial(log.fed).ovf

\* the second cycle has printed its report while a line is half read: its first two
\* bytes were read by the drain of the first cycle and are still in the line
C20_Witness ==
    /\ last.op = "cycle"
    /\ nCycles = 2
    /\ log.fed = << "C", ":" >>
    /\ log.lines = << >>
    /\ cmdLine = << "C", ":" >>
    /\ ~cmdOverflow

====
